---- MODULE Spec2Model ----
(***************************************************************************)
(* OAuth token acquisition and caching core of vscode_abap_remote_fs:      *)
(* oauthLogin / futureToken / toVault / fromVault of the oauth module.     *)
(* One connection configuration, several invocations of the login          *)
(* operation oauthLogin(conf) returns, and callers of futureToken.         *)
(* Promises are modelled by their settlement state; every await is a       *)
(* suspension point and so the border between two actions.                 *)
(***************************************************************************)
EXTENDS Integers, Naturals, Sequences, FiniteSets, TLC

\* ------------------------------------------------------------------ bounds
\* number of invocations of the login operation in one behaviour
NumCalls == 2

Calls == 1..NumCalls

\* ------------------------------------------------------- option encoding
\* fp-ts Option / undefined: the empty tuple is none, <<x>> is some(x)
None == << >>
Some(x) == <<x>>
IsSome(o) == o # << >>

\* ------------------------------------------------------------ data model
\* connection names a configuration may carry
Names == {"Dev", "dev"}

\* formatKey of ../config: the key derivation of a connection name
formatKey(raw) == IF raw = "Dev" THEN "dev" ELSE raw

\* a Token of client-oauth2: the three fields the core needs plus metadata
Tok(a, r) == [accessToken |-> a, refreshToken |-> r, tokenType |-> "bearer",
              expires |-> "later"]

\* tokens cfCodeGrant can resolve with, in the order they are first issued
GrantTokens == <<Tok("a1", "r1"), Tok("a2", "r2")>>

\* the token a refresh exchange resolves with
RefreshTokens == {Tok("n1", "r1")}

\* strip of ./grantStorage: the minimal serializable projection
strip(t) == [accessToken |-> t.accessToken, refreshToken |-> t.refreshToken,
             tokenType |-> t.tokenType]

\* the errors a pending grant can fail with
TimeoutError == "User logon timed out"
GrantError == "grant exchange failed"

\* ---------------------------------------------------------- JSON records
\* A stored string: kind "empty" is "", "invalid" does not parse, "null" is
\* the JSON null, "object" is a JSON object with its members in order.
Text(kind, members) == [kind |-> kind, members |-> members]

\* value of member name of a parsed object, "" when it is missing
Member(members, name) ==
  IF \E k \in 1..Len(members) : members[k][1] = name
  THEN members[CHOOSE k \in 1..Len(members) : members[k][1] = name][2]
  ELSE ""

\* JSON.stringify of a TokenData
serializeToken(data) ==
  Text("object", << <<"accessToken", data.accessToken>>,
                    <<"refreshToken", data.refreshToken>>,
                    <<"tokenType", data.tokenType>> >>)

\* JSON.parse throws on a string that is not JSON
ParseThrows(s) == s.kind = "invalid"

\* line 21 testing accessToken alone
deserializeTokenLoose(s) ==
  IF s = None \/ s[1].kind # "object"
  THEN None
  ELSE LET data == [accessToken |-> Member(s[1].members, "accessToken"),
                    refreshToken |-> Member(s[1].members, "refreshToken"),
                    tokenType |-> Member(s[1].members, "tokenType")]
       IN IF data.accessToken # "" THEN Some(strip(data)) ELSE None

\* deserializeToken(s) for s a stored string (None when s is undefined):
\* Some(TokenData) when all three fields are non-empty, None otherwise
deserializeToken(s) ==
  IF s = None \/ s[1].kind # "object"
  THEN None
  ELSE LET data == [accessToken |-> Member(s[1].members, "accessToken"),
                    refreshToken |-> Member(s[1].members, "refreshToken"),
                    tokenType |-> Member(s[1].members, "tokenType")]
       IN IF data.accessToken # "" /\ data.refreshToken # "" /\ data.tokenType # ""
          THEN Some(strip(data))
          ELSE None

\* ---------------------------------------------------------- configuration
NoOAuth == None

OAuthConfigs ==
  [clientId : {"", "c1"}, clientSecret : {"s1"}, loginUrl : {"https://host"},
   saveCredentials : BOOLEAN]

\* the names of the configured connection: one that formatKey changes
ConfNames == {"Dev"}

Configs == [name : ConfNames, oauth : {NoOAuth} \cup {Some(o) : o \in OAuthConfigs}]

\* clientId && clientSecret && loginUrl
CredsPresent(c) ==
  /\ IsSome(c.oauth)
  /\ c.oauth[1].clientId # ""
  /\ c.oauth[1].clientSecret # ""
  /\ c.oauth[1].loginUrl # ""

SaveCredentials(c) == IsSome(c.oauth) /\ c.oauth[1].saveCredentials

vaultId(conn) == "vscode_git_" \o formatKey(conn)

\* what the secret store may hold for the connection when the process starts:
\* a string that is not JSON, a record without refreshToken, a record an
\* earlier process saved
StoredTexts ==
  { Text("invalid", << >>),
    Text("object", << <<"accessToken", "a0">>, <<"tokenType", "bearer">> >>),
    serializeToken(strip(Tok("a0", "r0"))) }

VaultContents == {None} \cup {Some(t) : t \in StoredTexts}

\* ------------------------------------------------------------------ state
VARIABLES
  conf,           \* the RemoteConfig oauthLogin was called with
  tokens,         \* TokenStore: the tokens map of ./grantStorage
  pendingGrants,  \* PendingGrantRegistry: key -> the call whose race promise it holds, 0 when absent
  vault,          \* the secret store: <<service, account>> -> stored string
  saves,          \* per call, the setPassword toVault issued and its fate
  pc,             \* per call, the position of the login invocation
  td,             \* per call, the TokenData fromVault deserialized
  grant,          \* per call, the promise cfCodeGrant returned
  timer,          \* per call, the after(60000) timer
  race,           \* per call, the promise Promise.race([grant, timeout])
  closes,         \* per call, how often server.server.close() was invoked
  result,         \* per call, what the login invocation settled with
  path,           \* per call, the branch that produced the result
  reads,          \* per call, whether vault.getPassword was issued
  refreshed,      \* per call, the token its refresh exchange resolved with
  overlap,        \* pairs of calls that ran at the same time with no token stored
  ft,             \* the last futureToken call and what it returned
  audit,          \* whether the history variables overlap and ft.awaiting are kept
  rt              \* a string or token handed to deserializeToken / serializeToken, and the result

vars == <<conf, tokens, pendingGrants, vault, saves, pc, td, grant, timer, race,
          closes, result, path, reads, refreshed, overlap, ft, audit, rt>>

\* promise states
Unborn == <<"none">>
Pending == <<"pending">>
Resolved(v) == <<"ok", v>>
Rejected(e) == <<"err", e>>
Settled(p) == p[1] \in {"ok", "err"}

\* the key the login operation computes: const connId = formatKey(conf.name)
connId == formatKey(conf.name)

VaultKeys == {<<vaultId(n), "c1">> : n \in Names}

\* getToken / setToken of ./grantStorage
getToken(id) == tokens[id]
setToken(id, t) == [tokens EXCEPT ![id] = Some(t)]

InProgress(j) == pc[j] \in {"getPassword", "refresh", "awaitRace"}

Start ==
  /\ conf \in Configs
  /\ tokens = [k \in Names |-> None]
  /\ pendingGrants = [k \in Names |-> 0]
  /\ vault \in [VaultKeys -> VaultContents]
  \* a connection that never reaches the secret store starts with it empty
  /\ (~(SaveCredentials(conf) /\ CredsPresent(conf))) => \A k \in VaultKeys : vault[k] = None
  /\ saves = [i \in Calls |-> <<"none">>]
  /\ pc = [i \in Calls |-> "idle"]
  /\ td = [i \in Calls |-> None]
  /\ grant = [i \in Calls |-> Unborn]
  /\ timer = [i \in Calls |-> "none"]
  /\ race = [i \in Calls |-> Unborn]
  /\ closes = [i \in Calls |-> 0]
  /\ result = [i \in Calls |-> Unborn]
  /\ path = [i \in Calls |-> "none"]
  /\ reads = [i \in Calls |-> FALSE]
  /\ refreshed = [i \in Calls |-> None]
  /\ overlap = {}
  /\ ft = [connId |-> "", kind |-> "idle", value |-> "", promise |-> 0, awaiting |-> {}]

\* no string or token has been handed to the serialization functions
RtIdle == [op |-> "idle", kind |-> "none", input |-> None, out |-> None]

Init == Start /\ audit = FALSE /\ rt = RtIdle

\* the same program with the history of overlapping calls recorded
AuditInit == Start /\ audit = TRUE /\ rt = RtIdle

\* ---------------------------------------------------------------- login
\* lines 67-74 with line 74 registering under the raw connection name
StartGrantRawKey(i) ==
  /\ grant' = [grant EXCEPT ![i] = Pending]
  /\ timer' = [timer EXCEPT ![i] = "armed"]
  /\ race' = [race EXCEPT ![i] = Pending]
  /\ pendingGrants' = [pendingGrants EXCEPT ![conf.name] = i]
  /\ pc' = [pc EXCEPT ![i] = "awaitRace"]

\* lines 67-74: loginServer, cfCodeGrant, the timeout, the race, and its
\* registration; the invocation then suspends at `await pendingGrant`
StartGrant(i) ==
  /\ grant' = [grant EXCEPT ![i] = Pending]
  /\ timer' = [timer EXCEPT ![i] = "armed"]
  /\ race' = [race EXCEPT ![i] = Pending]
  /\ pendingGrants' = [pendingGrants EXCEPT ![formatKey(connId)] = i]
  /\ pc' = [pc EXCEPT ![i] = "awaitRace"]

\* line 65: return oldGrant.accessToken
ReturnToken(i, oldGrant, how) ==
  /\ pc' = [pc EXCEPT ![i] = "done"]
  /\ result' = [result EXCEPT ![i] = Resolved(oldGrant.accessToken)]
  /\ path' = [path EXCEPT ![i] = how]

\* line 63 without its `&& !oldGrant`
VaultAttemptedAlways(oldGrant) == SaveCredentials(conf)

\* line 63: saveCredentials && !oldGrant
VaultAttempted(oldGrant) == SaveCredentials(conf) /\ ~IsSome(oldGrant)

\* line 58 missing: a login operation is returned for every configuration
oauthLoginAlways == TRUE

\* lines 57-58: whether oauthLogin(conf) returns a login operation
oauthLogin == IsSome(conf.oauth)

\* lines 60-65 up to the first suspension: the call of the login operation
LoginCall(i) ==
  /\ oauthLogin
  /\ pc[i] = "idle"
  /\ \A j \in Calls : j < i => pc[j] # "idle"
  /\ overlap' = IF audit
                THEN overlap \cup
                     {<<j, i>> : j \in {k \in Calls : InProgress(k) /\ ~IsSome(getToken(connId))}}
                ELSE overlap
  /\ LET oldGrant == getToken(connId) IN
     IF VaultAttempted(oldGrant) /\ CredsPresent(conf)
     THEN \* fromVault: await vault.getPassword(vaultId(conf.name), clientId)
          /\ pc' = [pc EXCEPT ![i] = "getPassword"]
          /\ reads' = [reads EXCEPT ![i] = TRUE]
          /\ UNCHANGED <<grant, timer, race, pendingGrants, result, path>>
     ELSE IF IsSome(oldGrant)
     THEN /\ ReturnToken(i, oldGrant[1], "fast")
          /\ UNCHANGED <<grant, timer, race, pendingGrants, reads>>
     ELSE \* no vault attempt, or fromVault returned none at line 35
          /\ StartGrant(i)
          /\ UNCHANGED <<result, path, reads>>
  /\ UNCHANGED <<conf, tokens, vault, saves, td, closes, refreshed, ft, audit, rt>>

\* lines 38-51 with the refresh of lines 48-50 left out: some(td) is returned
GetPasswordReturnRaw(i) ==
  /\ pc[i] = "getPassword"
  /\ LET tp == vault[<<vaultId(conf.name), conf.oauth[1].clientId>>]
         usable == /\ IsSome(tp)
                   /\ tp[1].kind # "empty"
                   /\ ~ParseThrows(tp[1])
                   /\ IsSome(deserializeToken(tp))
     IN IF usable
        THEN /\ td' = [td EXCEPT ![i] = deserializeToken(tp)]
             /\ ReturnToken(i, deserializeToken(tp)[1], "vault")
             /\ UNCHANGED <<grant, timer, race, pendingGrants>>
        ELSE /\ StartGrant(i)
             /\ UNCHANGED <<td, result, path>>
  /\ UNCHANGED <<conf, tokens, vault, saves, closes, reads, refreshed, overlap, ft, audit, rt>>

\* lines 38-40 and 48-50: getPassword resolved; deserialize, then start the refresh
GetPasswordReturn(i) ==
  /\ pc[i] = "getPassword"
  /\ LET tp == vault[<<vaultId(conf.name), conf.oauth[1].clientId>>]
         usable == /\ IsSome(tp)
                   /\ tp[1].kind # "empty"
                   /\ ~ParseThrows(tp[1])
                   /\ IsSome(deserializeToken(tp))
     IN IF usable
        THEN /\ td' = [td EXCEPT ![i] = deserializeToken(tp)]
             /\ pc' = [pc EXCEPT ![i] = "refresh"]
             /\ UNCHANGED <<grant, timer, race, pendingGrants>>
        ELSE \* return none (line 40) or catch (line 53): oldGrant stays undefined
             /\ StartGrant(i)
             /\ UNCHANGED td
  /\ UNCHANGED <<conf, tokens, vault, saves, closes, result, path, reads,
                 refreshed, overlap, ft, audit, rt>>

\* line 38 rejects and no catch absorbs it: the login invocation fails
GetPasswordFailThrows(i) ==
  /\ pc[i] = "getPassword"
  /\ pc' = [pc EXCEPT ![i] = "failed"]
  /\ result' = [result EXCEPT ![i] = Rejected("vault read failed")]
  /\ UNCHANGED <<conf, tokens, pendingGrants, vault, saves, td, grant, timer, race,
                 closes, path, reads, refreshed, overlap, ft, audit, rt>>

\* line 38 rejects: the catch of line 52 returns none
GetPasswordFail(i) ==
  /\ pc[i] = "getPassword"
  /\ StartGrant(i)
  /\ UNCHANGED <<conf, tokens, vault, saves, td, closes, result, path, reads,
                 refreshed, overlap, ft, audit, rt>>

\* lines 48-51 and 64-65: the refresh exchange resolved with token t
RefreshReturn(i) ==
  /\ pc[i] = "refresh"
  /\ \E t \in RefreshTokens :
       /\ refreshed' = [refreshed EXCEPT ![i] = Some(t)]
       /\ ReturnToken(i, strip(t), "vault")
  /\ UNCHANGED <<conf, tokens, pendingGrants, vault, saves, td, grant, timer,
                 race, closes, reads, overlap, ft, audit, rt>>

\* lines 48-50 reject: the catch of line 52 returns none
RefreshFail(i) ==
  /\ pc[i] = "refresh"
  /\ StartGrant(i)
  /\ UNCHANGED <<conf, tokens, vault, saves, td, closes, result, path, reads,
                 refreshed, overlap, ft, audit, rt>>

\* ------------------------------------------------- the race and its outcome
\* A settlement of the race and the continuation of `await pendingGrant` run
\* in the same turn of the event loop (the continuation is a microtask of the
\* settling callback), so each settling event below includes lines 75-79.

\* lines 25-31 without the return of line 28
toVaultUnguarded(i, token) ==
  [saves EXCEPT ![i] = <<"issued", <<vaultId(conf.name), conf.oauth[1].clientId>>,
                         serializeToken(strip(token))>>]

\* lines 25-31: toVault(conf, token), not awaited: the setPassword it issues
toVault(i, token) ==
  IF CredsPresent(conf)
  THEN [saves EXCEPT ![i] = <<"issued", <<vaultId(conf.name), conf.oauth[1].clientId>>,
                              serializeToken(strip(token))>>]
  ELSE saves

\* lines 76-79 with the setToken of line 76 skipped
LoginSucceedNoStore(i, token) ==
  /\ tokens' = tokens
  /\ pendingGrants' = [pendingGrants EXCEPT ![formatKey(connId)] = 0]
  /\ saves' = IF SaveCredentials(conf) THEN toVault(i, token) ELSE saves
  /\ pc' = [pc EXCEPT ![i] = "done"]
  /\ result' = [result EXCEPT ![i] = Resolved(token.accessToken)]
  /\ path' = [path EXCEPT ![i] = "grant"]

\* lines 76-79: the continuation of `await pendingGrant` when the race resolved
LoginSucceed(i, token) ==
  /\ tokens' = setToken(connId, token)
  /\ pendingGrants' = [pendingGrants EXCEPT ![formatKey(connId)] = 0]
  /\ saves' = IF SaveCredentials(conf) THEN toVault(i, token) ELSE saves
  /\ pc' = [pc EXCEPT ![i] = "done"]
  /\ result' = [result EXCEPT ![i] = Resolved(token.accessToken)]
  /\ path' = [path EXCEPT ![i] = "grant"]

\* line 75 in a try whose handler caches an empty token and returns it
LoginThrowSwallowed(i, e) ==
  /\ tokens' = setToken(connId, Tok("", ""))
  /\ pc' = [pc EXCEPT ![i] = "done"]
  /\ result' = [result EXCEPT ![i] = Resolved("")]
  /\ path' = [path EXCEPT ![i] = "grant"]
  /\ UNCHANGED <<pendingGrants, saves>>

\* line 75: `await pendingGrant` throws when the race rejected with e
LoginThrow(i, e) ==
  /\ pc' = [pc EXCEPT ![i] = "failed"]
  /\ result' = [result EXCEPT ![i] = Rejected(e)]
  /\ path' = [path EXCEPT ![i] = "grant"]
  /\ UNCHANGED <<tokens, pendingGrants, saves>>

\* The token values are interchangeable, so a grant resolves with a token an
\* earlier grant resolved with or with the first one not issued yet.
Issued == {k \in 1..Len(GrantTokens) : \E j \in Calls : grant[j] = Resolved(GrantTokens[k])}
Issuable == {GrantTokens[k] : k \in {n \in 1..Len(GrantTokens) : n <= Cardinality(Issued) + 1}}

\* cfCodeGrant resolves with token t before the timer fired: the race
\* resolves with t and the login invocation resumes at line 76
GrantResolve(i) ==
  /\ grant[i] = Pending
  /\ race[i] = Pending
  /\ \E t \in Issuable :
       /\ grant' = [grant EXCEPT ![i] = Resolved(t)]
       /\ race' = [race EXCEPT ![i] = Resolved(t)]
       /\ LoginSucceed(i, t)
  /\ UNCHANGED <<conf, vault, td, timer, closes, reads, refreshed, overlap, ft, audit, rt>>

\* cfCodeGrant rejects before the timer fired: the race rejects, line 75 throws
GrantReject(i) ==
  /\ grant[i] = Pending
  /\ race[i] = Pending
  /\ grant' = [grant EXCEPT ![i] = Rejected(GrantError)]
  /\ race' = [race EXCEPT ![i] = Rejected(GrantError)]
  /\ LoginThrow(i, GrantError)
  /\ UNCHANGED <<conf, vault, td, timer, closes, reads, refreshed, overlap, ft, audit, rt>>

\* line 70 missing from the callback of the timer
CloseServerNever(n) == n

\* line 70: server.server.close() in the callback of the timer
CloseServer(n) == n + 1

\* lines 69-72 with the timeout left out of the race of line 73
TimerFireOutsideRace(i) ==
  /\ timer[i] = "armed"
  /\ timer' = [timer EXCEPT ![i] = "fired"]
  /\ closes' = [closes EXCEPT ![i] = CloseServer(closes[i])]
  /\ UNCHANGED <<race, pc, result, path, tokens, pendingGrants, saves>>
  /\ UNCHANGED <<conf, vault, td, grant, reads, refreshed, overlap, ft, audit, rt>>

\* lines 69-72: after(60000) fires; its callback closes the server and throws.
\* If the race is still pending it rejects with the timeout and line 75 throws.
TimerFire(i) ==
  /\ timer[i] = "armed"
  /\ timer' = [timer EXCEPT ![i] = "fired"]
  /\ closes' = [closes EXCEPT ![i] = CloseServer(closes[i])]
  /\ IF race[i] = Pending
     THEN /\ race' = [race EXCEPT ![i] = Rejected(TimeoutError)]
          /\ LoginThrow(i, TimeoutError)
     ELSE UNCHANGED <<race, pc, result, path, tokens, pendingGrants, saves>>
  /\ UNCHANGED <<conf, vault, td, grant, reads, refreshed, overlap, ft, audit, rt>>

\* ------------------------------------------------------------ secret store
\* vault.setPassword of line 30 completes: the record is stored
SaveComplete(i) ==
  /\ saves[i][1] = "issued"
  /\ vault' = [vault EXCEPT ![saves[i][2]] = Some(saves[i][3])]
  /\ saves' = [saves EXCEPT ![i][1] = "stored"]
  /\ UNCHANGED <<conf, tokens, pendingGrants, pc, td, grant, timer, race, closes,
                 result, path, reads, refreshed, overlap, ft, audit, rt>>

\* vault.setPassword of line 30 rejects: nothing awaits it
SaveFail(i) ==
  /\ saves[i][1] = "issued"
  /\ saves' = [saves EXCEPT ![i][1] = "failed"]
  /\ UNCHANGED <<conf, tokens, pendingGrants, vault, pc, td, grant, timer, race,
                 closes, result, path, reads, refreshed, overlap, ft, audit, rt>>

\* ------------------------------------------------------------ futureToken
\* lines 9-14: what futureToken(id) returns, and the calls awaiting their race then
futureToken(id) ==
  LET oldGrant == getToken(id)
      pending == pendingGrants[id]
      waiting == IF audit THEN {i \in Calls : pc[i] = "awaitRace"} ELSE {}
  IN IF IsSome(oldGrant)
     THEN [connId |-> id, kind |-> "value", value |-> oldGrant[1].accessToken,
           promise |-> 0, awaiting |-> waiting]
     ELSE IF pending # 0
     THEN [connId |-> id, kind |-> "pending", value |-> "", promise |-> pending,
           awaiting |-> waiting]
     ELSE [connId |-> id, kind |-> "nothing", value |-> "", promise |-> 0,
           awaiting |-> waiting]

\* futureToken(id) that also drops the registry entry it looked up
FutureTokenClearing(id) ==
  /\ ft' = futureToken(id)
  /\ pendingGrants' = [pendingGrants EXCEPT ![id] = 0]
  /\ UNCHANGED <<conf, tokens, vault, saves, pc, td, grant, timer,
                 race, closes, result, path, reads, refreshed, overlap, audit, rt>>

\* a collaborator calls futureToken(id)
FutureToken(id) ==
  /\ ft' = futureToken(id)
  /\ UNCHANGED <<conf, tokens, pendingGrants, vault, saves, pc, td, grant, timer,
                 race, closes, result, path, reads, refreshed, overlap, audit, rt>>

\* what the promise futureToken returned has settled with: pending.then(t => t.accessToken)
FtOutcome ==
  CASE ft.kind = "value" -> Resolved(ft.value)
    [] ft.kind = "nothing" -> Resolved("")
    [] ft.kind = "pending" ->
         IF race[ft.promise][1] = "ok" THEN Resolved(race[ft.promise][2].accessToken)
         ELSE race[ft.promise]
    [] OTHER -> Unborn

\* ------------------------------------------------------------------- spec
Next ==
  \/ \E i \in Calls : LoginCall(i)
  \/ \E i \in Calls : GetPasswordReturn(i)
  \/ \E i \in Calls : GetPasswordFail(i)
  \/ \E i \in Calls : RefreshReturn(i)
  \/ \E i \in Calls : RefreshFail(i)
  \/ \E i \in Calls : GrantResolve(i)
  \/ \E i \in Calls : GrantReject(i)
  \/ \E i \in Calls : TimerFire(i)
  \/ \E i \in Calls : SaveComplete(i)
  \/ \E i \in Calls : SaveFail(i)
  \/ \E id \in Names : FutureToken(id)

Spec == Init /\ [][Next]_vars

AuditSpec == AuditInit /\ [][Next]_vars

\* the program when the 60-second timer of every started grant eventually
\* fires and every vault read and refresh exchange eventually settles;
\* nothing is assumed of cfCodeGrant
Fairness ==
  \A i \in Calls :
    /\ WF_vars(TimerFire(i))
    /\ WF_vars(GetPasswordReturn(i) \/ GetPasswordFail(i))
    /\ WF_vars(RefreshReturn(i) \/ RefreshFail(i))

\* the steps of the login invocations and of the saves they issue;
\* futureToken is left out: it writes nothing a login invocation reads
LoginNext ==
  \/ \E i \in Calls : LoginCall(i)
  \/ \E i \in Calls : GetPasswordReturn(i)
  \/ \E i \in Calls : GetPasswordFail(i)
  \/ \E i \in Calls : RefreshReturn(i)
  \/ \E i \in Calls : RefreshFail(i)
  \/ \E i \in Calls : GrantResolve(i)
  \/ \E i \in Calls : GrantReject(i)
  \/ \E i \in Calls : TimerFire(i)
  \/ \E i \in Calls : SaveComplete(i)
  \/ \E i \in Calls : SaveFail(i)

FairSpec == Init /\ [][LoginNext]_vars /\ Fairness

\* ------------------------------------------- serialization on its own
\* deserializeToken and serializeToken applied to strings and tokens drawn
\* from small sets, apart from any login.

\* field values: empty (or missing) and two non-empty strings
RtFieldValues == {"", "x", "y"}

RtTokens ==
  {[accessToken |-> a, refreshToken |-> r, tokenType |-> t, expires |-> "later"] :
     a \in RtFieldValues, r \in RtFieldValues, t \in RtFieldValues}

\* a member of a JSON object: absent, or present with a value
RtMember(name, v) == IF v = "absent" THEN << >> ELSE << <<name, v>> >>

RtObjects ==
  {Text("object", RtMember("accessToken", a) \o RtMember("refreshToken", r)
                    \o RtMember("tokenType", t) \o RtMember("scope", x)) :
     a \in RtFieldValues \cup {"absent"}, r \in RtFieldValues \cup {"absent"},
     t \in RtFieldValues \cup {"absent"}, x \in {"absent", "all"}}

\* the argument of deserializeToken: undefined, "", "null", not JSON, an object
RtRecords ==
  {None} \cup {Some(x) : x \in {Text("empty", << >>), Text("null", << >>),
                                 Text("invalid", << >>)} \cup RtObjects}

\* lines 18-22: a call of deserializeToken(s) returns a value or throws in JSON.parse
deserializeCall(s) ==
  IF IsSome(s) /\ s[1].kind # "empty" /\ ParseThrows(s[1])
  THEN <<"threw">>
  ELSE <<"returned", deserializeToken(s)>>

RtInit ==
  /\ Start
  /\ conf.oauth = NoOAuth
  /\ audit = FALSE
  /\ rt \in {[op |-> "idle", kind |-> "token", input |-> t, out |-> None] : t \in RtTokens}
       \cup {[op |-> "idle", kind |-> "record", input |-> x, out |-> None] : x \in RtRecords}

\* deserializeToken(serializeToken(strip(token)))
RtRoundTrip ==
  /\ rt.op = "idle" /\ rt.kind = "token"
  /\ rt' = [rt EXCEPT !.op = "roundtrip",
                      !.out = deserializeCall(Some(serializeToken(strip(rt.input))))]
  /\ UNCHANGED <<conf, tokens, pendingGrants, vault, saves, pc, td, grant, timer, race,
                 closes, result, path, reads, refreshed, overlap, ft, audit>>

\* deserializeToken(s)
RtDeserialize ==
  /\ rt.op = "idle" /\ rt.kind = "record"
  /\ rt' = [rt EXCEPT !.op = "deserialize", !.out = deserializeCall(rt.input)]
  /\ UNCHANGED <<conf, tokens, pendingGrants, vault, saves, pc, td, grant, timer, race,
                 closes, result, path, reads, refreshed, overlap, ft, audit>>

RtNext == RtRoundTrip \/ RtDeserialize

RoundTripSpec == RtInit /\ [][RtNext]_vars

\* ------------------------------------------------------------- properties
\* the stored string fromVault reads for the connection
StoredRecord == vault[<<vaultId(conf.name), conf.oauth[1].clientId>>]

\* the stores a login invocation could write: TokenStore, the vault, the saves issued
Stores == <<tokens, vault, saves>>

\* C1: two login invocations for the same connection that overlap while no
\* token is stored resolve to the same accessToken, and only one of them
\* starts an interactive grant (loginServer + cfCodeGrant).
C1_Dedup ==
  \A p \in overlap :
    /\ (result[p[1]][1] = "ok" /\ result[p[2]][1] = "ok") => result[p[1]] = result[p[2]]
    /\ ~(grant[p[1]] # Unborn /\ grant[p[2]] # Unborn)

\* C2: a login invocation called while TokenStore holds a token for the
\* connection returns that token's accessToken in the same step, reads no
\* vault, creates no server, starts no grant and registers no pending grant.
C2_FastPath ==
  [][\A i \in Calls :
       (pc[i] = "idle" /\ pc'[i] # "idle" /\ IsSome(getToken(connId))) =>
         /\ pc'[i] = "done"
         /\ result'[i] = Resolved(getToken(connId)[1].accessToken)
         /\ ~reads'[i]
         /\ grant'[i] = Unborn /\ timer'[i] = "none" /\ race'[i] = Unborn
         /\ UNCHANGED <<pendingGrants, tokens, vault, saves>>]_vars

C2_Witness ==
  \E i \in Calls :
    /\ path[i] = "fast" /\ pc[i] = "done"
    /\ SaveCredentials(conf) /\ CredsPresent(conf)
    /\ IsSome(getToken(connId)) /\ result[i] = Resolved(getToken(connId)[1].accessToken)

\* C3: in every state where no login invocation is awaiting its race,
\* pendingGrants holds no entry (the entry is removed whether the race ended in
\* success, grant error or timeout).
C3_RegistryCleanup ==
  (\A i \in Calls : pc[i] # "awaitRace") => \A k \in Names : pendingGrants[k] = 0

\* C4: when the timer fires while the race is still pending, the login
\* invocation fails with "User logon timed out" and close has been invoked
\* once on its server; a login that failed by timeout has exactly one close.
C4_Timeout ==
  /\ [][\A i \in Calls :
          (timer[i] = "armed" /\ timer'[i] = "fired" /\ race[i] = Pending) =>
            /\ pc'[i] = "failed"
            /\ result'[i] = Rejected(TimeoutError)
            /\ closes'[i] = closes[i] + 1]_vars
  /\ [](\A i \in Calls : result[i] = Rejected(TimeoutError) => closes[i] = 1)

C4_Witness ==
  \E i \in Calls : pc[i] = "failed" /\ result[i] = Rejected(TimeoutError) /\ closes[i] = 1

\* C5: a step in which futureToken returns changes nothing but the value
\* handed to its caller: no grant, server or timer is created, no vault read or
\* save is issued, TokenStore and the registry stay as they are.
C5_FutureTokenFrame ==
  [][ft' # ft =>
       UNCHANGED <<tokens, pendingGrants, vault, saves, pc, grant, timer, race,
                   closes, reads, refreshed, result>>]_vars

C5_Witness ==
  /\ ft.kind = "pending"
  /\ pendingGrants[ft.connId] = ft.promise
  /\ pc[ft.promise] = "awaitRace"

\* C6: futureToken(connId) called while a login invocation has registered its
\* pending grant and awaits it settles as that login invocation does: once
\* both have settled, with the same accessToken or the same failure.
C6_SharedOutcome ==
  ft.connId = connId =>
    \A i \in ft.awaiting :
      (pc[i] \in {"done", "failed"} /\ Settled(FtOutcome)) => FtOutcome = result[i]

\* C7: when the race of a login invocation rejects (timeout or grant error)
\* the invocation fails with that error and TokenStore, the vault and the
\* issued saves are unchanged; no step of an invocation other than its
\* successful return writes them, and a failed invocation issued no save.
C7_FailureLeavesStores ==
  /\ [][\A i \in Calls :
          /\ (race[i] = Pending /\ race'[i][1] = "err") =>
               /\ pc'[i] = "failed"
               /\ result'[i] = race'[i]
               /\ UNCHANGED Stores
          /\ (pc'[i] # pc[i] /\ pc'[i] # "done") => UNCHANGED Stores]_vars
  /\ [](\A i \in Calls : pc[i] = "failed" => saves[i] = <<"none">>)

C7_Witness ==
  \E i \in Calls :
    /\ pc[i] = "failed" /\ result[i] = Rejected(GrantError)
    /\ SaveCredentials(conf) /\ CredsPresent(conf)
    /\ tokens[connId] = None

\* the save toVault issues for call i and token t
IssuedSave(t) ==
  <<"issued", <<vaultId(conf.name), conf.oauth[1].clientId>>, serializeToken(strip(t))>>

\* C8 as stated: when the grant wins the race with a token, on return
\* TokenStore maps the connection to it and its accessToken is returned, and
\* with saveCredentials set a vault save of the stripped token is issued.
C8_BackFillAsStated ==
  [][\A i \in Calls :
       (race[i] = Pending /\ race'[i][1] = "ok") =>
         /\ tokens'[connId] = Some(race'[i][2])
         /\ result'[i] = Resolved(race'[i][2].accessToken)
         /\ SaveCredentials(conf) => saves'[i] = IssuedSave(race'[i][2])]_vars

\* C8 amended: as C8, but the vault save is issued when saveCredentials is set
\* and clientId, clientSecret and loginUrl are all non-empty, and not
\* otherwise; the value returned stays whatever becomes of the save.
C8_BackFill ==
  /\ [][\A i \in Calls :
          (race[i] = Pending /\ race'[i][1] = "ok") =>
            /\ pc'[i] = "done"
            /\ tokens'[connId] = Some(race'[i][2])
            /\ result'[i] = Resolved(race'[i][2].accessToken)
            /\ saves'[i] = IF SaveCredentials(conf) /\ CredsPresent(conf)
                           THEN IssuedSave(race'[i][2])
                           ELSE <<"none">>]_vars
  /\ [](\A i \in Calls :
          (pc[i] = "done" /\ path[i] = "grant") =>
             result[i] = Resolved(race[i][2].accessToken))

C8_Witness ==
  \E i \in Calls :
    /\ pc[i] = "done" /\ path[i] = "grant"
    /\ saves[i][1] = "failed"
    /\ result[i] = Resolved(race[i][2].accessToken)

\* C9: a login invocation that reads the vault never fails in fromVault: it
\* goes on to the refresh only with a record that deserializes, and after a
\* failed read, a missing or unusable record or a failed refresh it starts a
\* fresh interactive grant.
C9_VaultDegrades ==
  [][\A i \in Calls :
       /\ (pc[i] = "getPassword" /\ pc'[i] # pc[i]) =>
            IF pc'[i] = "refresh"
            THEN IsSome(deserializeToken(StoredRecord))
            ELSE /\ pc'[i] = "awaitRace"
                 /\ grant'[i] = Pending /\ race'[i] = Pending
                 /\ result'[i] = Unborn
       /\ (pc[i] = "refresh" /\ pc'[i] # pc[i]) =>
            \/ pc'[i] = "done" /\ IsSome(refreshed'[i])
            \/ /\ pc'[i] = "awaitRace"
               /\ grant'[i] = Pending /\ race'[i] = Pending
               /\ result'[i] = Unborn]_vars

C9_Witness ==
  \E i \in Calls :
    /\ reads[i] /\ IsSome(td[i]) /\ refreshed[i] = None
    /\ pc[i] = "awaitRace" /\ grant[i] = Pending

\* C10: an accessToken a login invocation returns through the vault-restore
\* path is the accessToken of the token a refresh exchange of that invocation
\* resolved with.
C10_RefreshOnRestore ==
  \A i \in Calls :
    (pc[i] = "done" /\ path[i] = "vault") =>
      /\ IsSome(refreshed[i])
      /\ result[i] = Resolved(refreshed[i][1].accessToken)

C10_Witness ==
  \E i \in Calls :
    /\ pc[i] = "done" /\ path[i] = "vault"
    /\ IsSome(td[i]) /\ IsSome(refreshed[i])
    /\ result[i] # Resolved(td[i][1].accessToken)

\* C11: for a connection without an oauth section no login operation exists,
\* so no invocation ever starts, nothing reads the vault, creates a server or
\* starts a grant, and every futureToken call resolves to nothing.
C11_NoOAuth ==
  conf.oauth = NoOAuth =>
    /\ \A i \in Calls :
         /\ pc[i] = "idle" /\ result[i] = Unborn
         /\ ~reads[i] /\ saves[i] = <<"none">>
         /\ grant[i] = Unborn /\ race[i] = Unborn /\ timer[i] = "none"
    /\ \A k \in Names : tokens[k] = None /\ pendingGrants[k] = 0
    /\ \A k \in VaultKeys : vault[k] = None
    /\ ft.kind \in {"idle", "nothing"}

C11_Witness ==
  /\ conf.oauth = NoOAuth
  /\ ft.kind = "nothing" /\ ft.connId = connId
  /\ FtOutcome = Resolved("")

\* whether all three required fields of a token are non-empty
RtValid(t) == t.accessToken # "" /\ t.refreshToken # "" /\ t.tokenType # ""

\* whether a string handed to deserializeToken is absent, empty, or an object
\* in which one of the three required members is missing or empty
RtLacksField(s) ==
  \/ s = None
  \/ s[1].kind = "empty"
  \/ /\ s[1].kind = "object"
     /\ \E name \in {"accessToken", "refreshToken", "tokenType"} :
          \A k \in 1..Len(s[1].members) :
            s[1].members[k][1] = name => s[1].members[k][2] = ""

\* C12: deserializeToken(serializeToken(strip(token))) of a token with
\* non-empty accessToken, refreshToken and tokenType returns a token with the
\* same three fields; deserializeToken of an absent or empty string, or of a
\* record in which one of the three is missing or empty, returns absent.
C12_RoundTrip ==
  /\ (rt.op = "roundtrip" /\ RtValid(rt.input)) =>
       /\ rt.out[1] = "returned" /\ IsSome(rt.out[2])
       /\ rt.out[2][1].accessToken = rt.input.accessToken
       /\ rt.out[2][1].refreshToken = rt.input.refreshToken
       /\ rt.out[2][1].tokenType = rt.input.tokenType
  /\ (rt.op = "roundtrip" /\ ~RtValid(rt.input)) => rt.out = <<"returned", None>>
  /\ (rt.op = "deserialize" /\ RtLacksField(rt.input)) => rt.out = <<"returned", None>>

C12_Witness ==
  /\ rt.op = "roundtrip" /\ RtValid(rt.input)
  /\ rt.out = <<"returned", Some(strip(rt.input))>>
  /\ rt.input.accessToken # rt.input.refreshToken

\* C13: when the grant has settled the race before the timer fires, the
\* firing of the timer invokes no close on the server and changes neither the
\* result of the login invocation nor TokenStore, the registry or the vault.
C13_GrantWins ==
  [][\A i \in Calls :
       (timer[i] = "armed" /\ timer'[i] = "fired" /\ Settled(race[i])) =>
         /\ closes'[i] = closes[i]
         /\ result'[i] = result[i]
         /\ UNCHANGED <<tokens, pendingGrants, vault>>]_vars

\* C14: when a login invocation returns through the vault-restore path,
\* TokenStore holds for the connection the refreshed token whose accessToken
\* was returned, so futureToken returns it.
C14_RestoreIsCurrent ==
  [][\A i \in Calls :
       (pc[i] = "refresh" /\ pc'[i] = "done") =>
         /\ IsSome(tokens'[connId])
         /\ Resolved(tokens'[connId][1].accessToken) = result'[i]
         /\ futureToken(connId)'.kind = "value"]_vars

C16_NothingWhenIdle ==
  (tokens[connId] = None /\ \A i \in Calls : race[i] # Pending) =>
    futureToken(connId).kind = "nothing"

\* C17: a login invocation reads the vault only with saveCredentials set and
\* no token in TokenStore; a vault save is issued only by the step on which a
\* fresh grant wins the race, with saveCredentials set and clientId,
\* clientSecret and loginUrl present; the vault changes only when an issued
\* save completes; with saveCredentials unset no invocation has read the
\* vault or issued a save; an invocation that returned through the
\* vault-restore path or failed has issued no save.
C17_SaveCredentialsGate ==
  /\ [][/\ \A i \in Calls :
             /\ (~reads[i] /\ reads'[i]) =>
                  SaveCredentials(conf) /\ tokens[connId] = None
             /\ saves'[i] # saves[i] =>
                  IF saves[i] = <<"none">>
                  THEN /\ SaveCredentials(conf) /\ CredsPresent(conf)
                       /\ race[i] = Pending /\ race'[i][1] = "ok"
                       /\ pc'[i] = "done" /\ path'[i] = "grant"
                       /\ saves'[i] = IssuedSave(race'[i][2])
                  ELSE saves[i][1] = "issued" /\ saves'[i][1] \in {"stored", "failed"}
        /\ vault' # vault =>
             \E i \in Calls : saves[i][1] = "issued" /\ saves'[i][1] = "stored"]_vars
  /\ [](/\ ~SaveCredentials(conf) =>
             \A i \in Calls : ~reads[i] /\ saves[i] = <<"none">>
        /\ \A i \in Calls :
             (path[i] = "vault" \/ pc[i] = "failed") => saves[i] = <<"none">>)

\* with saveCredentials set, an invocation read the vault, went on to a fresh
\* grant and its save reached the vault
C17_Witness ==
  /\ SaveCredentials(conf)
  /\ \E i \in Calls :
       /\ reads[i]
       /\ path[i] = "grant"
       /\ saves[i][1] = "stored"
       /\ StoredRecord = Some(saves[i][3])

\* C18: while an interactive grant for the connection has been started and its
\* race has not settled, pendingGrants holds an entry for the connection and
\* futureToken does not resolve to nothing.
C18_RegistryCovers ==
  (\E i \in Calls : race[i] = Pending) =>
    /\ pendingGrants[connId] # 0
    /\ futureToken(connId).kind # "nothing"

\* C19: when the timer of every started grant eventually fires and vault
\* reads and refresh exchanges eventually settle, every login invocation that
\* was called eventually returns an accessToken or fails.
C19_LoginSettles ==
  \A i \in Calls :
    InProgress(i) ~> (pc[i] \in {"done", "failed"} /\ Settled(result[i]))

\* an invocation failed by the timeout while its grant never settled
C19_Witness ==
  \E i \in Calls :
    /\ pc[i] = "failed"
    /\ result[i] = Rejected(TimeoutError)
    /\ grant[i] = Pending
    /\ timer[i] = "fired"

\* C20: for a connection with saveCredentials set (and clientId, clientSecret
\* and loginUrl present, so that saves are issued), whenever no login
\* invocation is in progress and every vault save that was issued has
\* completed successfully, a token held by TokenStore for the connection has
\* its stripped serialized form as the vault record of the connection.
C20_VaultAgrees ==
  ( /\ SaveCredentials(conf) /\ CredsPresent(conf)
    /\ \A i \in Calls : ~InProgress(i) /\ saves[i][1] \in {"none", "stored"}
    /\ IsSome(tokens[connId]) ) =>
      StoredRecord = Some(serializeToken(strip(tokens[connId][1])))

====
